---- MODULE Spec2Model ----
(***************************************************************************)
(* Model of the analysis pipeline of the agentic-workflows service:        *)
(*   BaseAgent.run            (agents/base-agent.ts)                       *)
(*   AgentOrchestrator        (src/orchestration/orchestrator.ts)          *)
(*   analyzeHandler, runAnalysis, analysisStatus (src/server.ts)           *)
(*                                                                         *)
(* Node runs one macrotask (an incoming request, a timer, the settlement   *)
(* of an external call) to completion together with every promise          *)
(* continuation it makes runnable, so each action below is one macrotask   *)
(* with all of its continuations.                                          *)
(***************************************************************************)
EXTENDS Integers, Sequences, FiniteSets, TLC

\* ---------------------------------------------------------------- bounds
MaxReq == 2
MaxClock == 1

Requests == 1..MaxReq
Clock == 0..MaxClock

\* ------------------------------------------------------- program constants
\* AgentOrchestrator constructor: maxRetries: config.maxRetries || 3
DefaultMaxRetries == 3

\* config.maxConcurrentAgents of the orchestrator that is to run its agents
\* one after another
SequentialMaxConcurrentAgents == 1

\* ------------------------------------------------------------ value sets
NoAgent == "NoAgent"
\* a Map without the key, an AgentResult that is not there, a status
\* entry without the results field
NoEntry == [status |-> "none"]
NoResult == [absent |-> TRUE]
NoResults == <<>>
NoError == "none"
Empty == "empty"

\* AgentType values that the switch of getRequiredAgents can produce (three
\* of its seven cases), and the agents of the registry: no agent is
\* registered for "pricing"
Kinds == {"sentiment", "market", "pricing"}
AgentIds == {"A1", "A2", "A3", "A4"}
Registry == [k \in Kinds |-> CASE k = "sentiment" -> "A1"
                               [] k = "market" -> "A2"
                               [] OTHER -> NoAgent]

\* AgentConfig of the two agents: config.priority (a PriorityLevel) and
\* config.enabled, as given to the constructor of BaseAgent
PriorityLevels == <<"low", "medium", "high", "critical">>
AgentPriority == [a \in AgentIds |-> IF a = "A1" THEN "high" ELSE "low"]
AgentEnabled == [a \in AgentIds |-> a # "A2"]

\* project ids, as character sequences (one is a prefix of the other)
PIDs == { <<"p", "1">>, <<"p", "1", "0">> }

\* the request bodies POSTed to /analyze (req.body is not validated by the
\* handler; timeout 0 stands for an absent timeout, which is falsy as
\* well); "unknown" is a tag outside AnalysisType
Bodies ==
  { [projectId |-> <<"p", "1">>, analysisTypes |-> <<"sentiment">>,
     streaming |-> FALSE, timeout |-> 1],
    [projectId |-> <<"p", "1", "0">>, analysisTypes |-> <<"sentiment">>,
     streaming |-> TRUE, timeout |-> 0],
    [projectId |-> <<"p", "1", "0">>, analysisTypes |-> <<"market", "sentiment">>,
     streaming |-> FALSE, timeout |-> 0],
    [projectId |-> <<"p", "1">>, analysisTypes |-> <<"unknown", "pricing">>,
     streaming |-> FALSE, timeout |-> 1],
    [projectId |-> <<"p", "1">>, analysisTypes |-> <<"unknown", "market", "pricing">>,
     streaming |-> TRUE, timeout |-> 1] }

AllIds == Clock \X PIDs

\* error messages
BusyMsg == "Agent is already running"
TimeoutMsg == "Agent timeout"
NoAgentsMsg == "No suitable agents found for the requested analysis types"
ProcessMsg == "process failed"
TypeErrorMsg == "Cannot read properties of undefined (reading 'message')"

\* what a process call can settle with: an AgentResult with success=true,
\* an AgentResult with success=false that process built itself, a rejection
\* with an Error, a rejection with a value that has no message property
\* (throw "text"), a rejection with undefined/null
Outcomes == {"ok", "softfail", "throwError", "throwValue", "throwNullish"}

\* the implementations of the abstract process: the process of agent A2
\* always resolves with success=true (at any time, so that a timeout can
\* still win the race), the process of A1 settles in any of the ways
Reliable == {"A2"}
ProcessOutcomes(a) == IF a \in Reliable THEN {"ok"} ELSE Outcomes

VARIABLES
  clock,          \* Date.now()
  config,         \* AgentOrchestrator.config (the fields the model uses);
                  \* given is the argument the constructor was called with
  agents,         \* AgentOrchestrator.agents : kind -> agent | NoAgent
  isRunning,      \* BaseAgent.isRunning, per agent
  lastResult,     \* BaseAgent.lastResult, per agent
  reqs,           \* per request: body, ids, state of its runAnalysis call
  tasks,          \* per request and kind: the runAgentWithRetry call
  analysisStatus, \* server.ts analysisStatus map
  timers,         \* pending one-hour eviction timers, per analysis id
  runningTasks,   \* AgentOrchestrator.runningTasks (keys)
  resultsCache,   \* AgentOrchestrator.resultsCache
  responses,      \* per request: the HTTP responses sent so far
  workflow,       \* one CustomerSupportWorkflow.execute call
  registered,     \* per type: the agent of the last registerAgent call
  aggregation,    \* one aggregateResults call: arguments and return value
  db              \* the analysis_requests table, by analysis_id

vars == << clock, config, agents, isRunning, lastResult, reqs, tasks,
           analysisStatus, timers, runningTasks, resultsCache, responses,
           workflow, registered, aggregation, db >>

\* ------------------------------------------------------------ AgentResult
\* base-agent.ts AgentResult: success, data, error? (confidence, metadata
\* and executionTime play no role in any decision of the pipeline)
OkResult(a) == [success |-> TRUE, data |-> a, error |-> NoError]
SoftFailResult(a) == [success |-> FALSE, data |-> a, error |-> NoError]

\* the errorResult built in the catch block of BaseAgent.run from
\* error.message; msg = NoError is a message that is undefined
ErrorResult(msg) == [success |-> FALSE, data |-> Empty, error |-> msg]

\* ---------------------------------------------------------------- config
\* constructor: maxRetries: config.maxRetries || 3 (0 is falsy)
EffectiveMaxRetries(cfg) == IF cfg = 0 THEN DefaultMaxRetries ELSE cfg

\* ------------------------------------------------------------------- ids
\* `analysis_${Date.now()}_${request.projectId}` as a sequence of tokens
AnalysisIdStr(id) == <<"analysis", "_", ToString(id[1]), "_">> \o id[2]

\* `${analysisId}_${agentType}`
TaskKeyStr(key) == AnalysisIdStr(<<key[1], key[2]>>) \o <<"_", key[3]>>

\* String.prototype.startsWith
StartsWith(s, p) == Len(p) <= Len(s) /\ SubSeq(s, 1, Len(p)) = p

\* ------------------------------------------------------- getRequiredAgents
SeqRange(s) == { s[i] : i \in 1..Len(s) }

\* getRequiredAgents with a switch whose default case falls into the
\* sentiment case instead of skipping the tag
RECURSIVE getRequiredAgents_DefaultFallsThrough(_, _)
getRequiredAgents_DefaultFallsThrough(analysisTypes, registry) ==
  IF analysisTypes = <<>> THEN <<>>
  ELSE LET n == Len(analysisTypes)
           before == getRequiredAgents_DefaultFallsThrough(
                       SubSeq(analysisTypes, 1, n - 1), registry)
           ty == IF analysisTypes[n] \in Kinds THEN analysisTypes[n]
                 ELSE "sentiment"
       IN IF registry[ty] # NoAgent /\ ty \notin SeqRange(before)
          THEN Append(before, ty)
          ELSE before

\* getRequiredAgents with a switch whose default case leaves the loop (break
\* for continue): the tags behind the first unknown tag are lost
RECURSIVE getRequiredAgents_DropsAfterUnknown(_, _)
getRequiredAgents_DropsAfterUnknown(analysisTypes, registry) ==
  IF analysisTypes = <<>> THEN <<>>
  ELSE LET n == Len(analysisTypes)
           before == getRequiredAgents_DropsAfterUnknown(
                       SubSeq(analysisTypes, 1, n - 1), registry)
           ty == analysisTypes[n]
       IN IF /\ \A i \in 1..n : analysisTypes[i] \in Kinds
             /\ registry[ty] # NoAgent /\ ty \notin SeqRange(before)
          THEN Append(before, ty)
          ELSE before

\* orchestrator.ts getRequiredAgents: the switch maps the AnalysisType tags
\* to the AgentType of the same name and skips every other tag (default:
\* continue); a kind is kept when this.agents has an agent for it; a Map
\* keeps the position of the first insertion of a key
RECURSIVE getRequiredAgents(_, _)
getRequiredAgents(analysisTypes, registry) ==
  IF analysisTypes = <<>> THEN <<>>
  ELSE LET n == Len(analysisTypes)
           before == getRequiredAgents(SubSeq(analysisTypes, 1, n - 1), registry)
           ty == analysisTypes[n]
       IN IF ty \in Kinds /\ registry[ty] # NoAgent /\ ty \notin SeqRange(before)
          THEN Append(before, ty)
          ELSE before

\* the type field of the object an agent is constructed with: server code
\* passes one (A1 and A3 are two sentiment agents); a config that has only
\* the fields of the AgentConfig interface has none (A4)
NoType == "undefined"
AgentType == [a \in AgentIds |-> CASE a \in {"A1", "A3"} -> "sentiment"
                                    [] a = "A2" -> "market"
                                    [] OTHER -> NoType]

\* a registerAgent that keeps the agent a type already has
registerAgent_KeepsFirst(registry, a) ==
  IF AgentType[a] = NoType \/ registry[AgentType[a]] # NoAgent THEN registry
  ELSE [registry EXCEPT ![AgentType[a]] = a]

\* orchestrator.ts registerAgent: warns and returns for a config without a
\* type, else this.agents.set(agentConfig.type, agent)
registerAgent(registry, a) ==
  IF AgentType[a] = NoType THEN registry
  ELSE [registry EXCEPT ![AgentType[a]] = a]

\* ------------------------------------------------------------ aggregation
\* simpleAggregation with the success test inverted
simpleAggregation_Inverted(agentTypes, results) ==
  { <<agentTypes[i], results[i].data>> :
      i \in { j \in 1..Len(agentTypes) : ~results[j].success } }

\* orchestrator.ts simpleAggregation: aggregated[agentTypes[i]] =
\* results[i].data for every i with results[i].success; the aggregate is
\* the set of its <<key, value>> entries
simpleAggregation(agentTypes, results) ==
  { <<agentTypes[i], results[i].data>> :
      i \in { j \in 1..Len(agentTypes) : results[j].success } }

\* a weighted aggregation that copies the data of every result
weightedAggregation_KeepsAll(agentTypes, results) ==
  { <<agentTypes[i], results[i].data>> : i \in 1..Len(agentTypes) }

\* orchestrator.ts weightedAggregation and confidenceAggregation: both
\* return this.simpleAggregation(agentTypes, results)
weightedAggregation(agentTypes, results) == simpleAggregation(agentTypes, results)
confidenceAggregation(agentTypes, results) == simpleAggregation(agentTypes, results)

\* config-agent.ts ResultAggregationMethod
ResultAggregationMethods == {"simple", "weighted", "confidence"}

\* an aggregation that copies the data of every result, failed or not
aggregateResults_KeepsFailed(method, agentTypes, results) ==
  { <<agentTypes[i], results[i].data>> : i \in 1..Len(agentTypes) }

\* orchestrator.ts aggregateResults: {} for no results, else the switch on
\* config.resultAggregation
aggregateResults(method, agentTypes, results) ==
  IF Len(results) = 0 THEN {}
  ELSE CASE method = "weighted" -> weightedAggregation(agentTypes, results)
         [] method = "confidence" -> confidenceAggregation(agentTypes, results)
         [] OTHER -> simpleAggregation(agentTypes, results)

\* the arguments runAnalysis calls aggregateResults with: the keys of the
\* requiredAgents map (no kind twice) and one settled result for each
MaxAgents == 2
AgentResults == { OkResult("A1"), OkResult("A2"), SoftFailResult("A1"),
                  ErrorResult(ProcessMsg) }
AgentTypeLists ==
  { s \in UNION { [1..n -> Kinds] : n \in 0..MaxAgents } :
      \A i, j \in 1..Len(s) : i # j => s[i] # s[j] }
NoAggregation == [pc |-> "none", method |-> "simple", agentTypes |-> <<>>,
                  results |-> <<>>, aggregated |-> {}]
AggregationCalls ==
  { [pc |-> "called", method |-> m, agentTypes |-> ts, results |-> rs,
     aggregated |-> {}] :
      m \in ResultAggregationMethods, ts \in AgentTypeLists,
      rs \in UNION { [1..n -> AgentResults] : n \in 0..MaxAgents } }

\* ------------------------------------------------------------------ tasks
TaskInit == [pc |-> "none", agent |-> NoAgent, attempt |-> 0, proc |-> "none",
             result |-> NoResult, lastError |-> NoError]

\* a retry loop without the bound on the attempts
runAgentWithRetryCatch_NoBound(t, msg, maxRetries) ==
  [t EXCEPT !.pc = "waiting", !.proc = "none", !.lastError = msg]

\* orchestrator.ts runAgentWithRetry, catch block and loop exit: after a
\* rejected agent.run in attempt t.attempt, wait agentTimeout when
\* attempt < maxRetries - 1, else leave the loop and throw lastError
runAgentWithRetryCatch(t, msg, maxRetries) ==
  IF t.attempt < maxRetries - 1
  THEN [t EXCEPT !.pc = "waiting", !.proc = "none", !.lastError = msg]
  ELSE [t EXCEPT !.pc = "rejected", !.proc = "none", !.lastError = msg]

\* run without the busy check
runEnter_NoBusyCheck(t, busy, maxRetries) ==
  [t EXCEPT !.pc = "running", !.proc = "inflight"]

\* base-agent.ts run, lines 122-143: the busy check, isRunning = true and
\* the call of process; busy is this.isRunning at the call
runEnter(t, busy, maxRetries) ==
  IF busy
  THEN runAgentWithRetryCatch(t, BusyMsg, maxRetries)
  ELSE [t EXCEPT !.pc = "running", !.proc = "inflight"]

\* base-agent.ts run, lines 144-171: what run does with the settled process
\* call: a resolved AgentResult is returned as it is; a rejection with an
\* Error gives the errorResult with its message; a rejected value without
\* a message property gives the errorResult with error undefined; for a
\* rejection with undefined or null the read of error.message in the catch
\* block throws a TypeError, which leaves run as a rejection
runSettle(a, outcome) ==
  CASE outcome = "ok" -> [returns |-> TRUE, result |-> OkResult(a)]
    [] outcome = "softfail" -> [returns |-> TRUE, result |-> SoftFailResult(a)]
    [] outcome = "throwError" -> [returns |-> TRUE, result |-> ErrorResult(ProcessMsg)]
    [] outcome = "throwValue" -> [returns |-> TRUE, result |-> ErrorResult(NoError)]
    [] outcome = "throwNullish" -> [returns |-> FALSE, error |-> TypeErrorMsg]

\* base-agent.ts run, lines 133-140 and 155-171: the timeout promise wins
\* the race
runTimeout == [returns |-> TRUE, result |-> ErrorResult(TimeoutMsg)]

\* a late settlement that is stored as the last result
lateSettle_Stores(last, a, outcome) ==
  IF outcome = "ok" THEN OkResult(a) ELSE ErrorResult(ProcessMsg)

\* what the settlement of a process call that lost the race against the
\* timeout does to lastResult: nothing awaits it any more
lateSettle(last, a, outcome) == last

\* runAgentWithRetry after agent.run settled with s
taskAfterRun(t, s, procAfter, maxRetries) ==
  IF s.returns
  THEN [t EXCEPT !.pc = "resolved", !.proc = procAfter, !.result = s.result]
  ELSE runAgentWithRetryCatch(t, s.error, maxRetries)

\* ----------------------------------------------------------------- server
\* server.ts analyzeHandler, analysisStatus.set(analysisId, {pending ...})
PendingStatus == [status |-> "pending", progress |-> 0,
                  results |-> NoResults, error |-> NoError]

\* server.ts runAnalysis, analysisStatus.set(analysisId, {processing ...});
\* progress in tenths
ProcessingStatus == [status |-> "processing", progress |-> 1,
                     results |-> NoResults, error |-> NoError]

\* server.ts runAnalysis, after orchestrator.runAnalysis resolved
CompletedStatus(results) == [status |-> "completed", progress |-> 10,
                             results |-> <<results>>, error |-> NoError]

\* a failed entry that lost the error of the run
FailedStatus_NoError(msg) == [status |-> "failed", progress |-> 0,
                              results |-> NoResults, error |-> NoError]

\* server.ts runAnalysis, catch block
FailedStatus(msg) == [status |-> "failed", progress |-> 0,
                      results |-> NoResults, error |-> msg]

\* an immediate response that reports the entry as pending
AcceptedResponse_Pending(analysisId) ==
  [kind |-> "accepted", success |-> TRUE, analysisId |-> analysisId,
   status |-> "pending"]

\* server.ts analyzeHandler, the immediate response of the background path
AcceptedResponse(analysisId) ==
  [kind |-> "accepted", success |-> TRUE, analysisId |-> analysisId,
   status |-> "processing"]

\* an AnalysisResponse that lost the aggregate
AnalysisResponse_NoResults(analysisId, agentTypes, results) ==
  [kind |-> "result", success |-> TRUE, analysisId |-> analysisId,
   agentsUsed |-> agentTypes, results |-> {}]

\* orchestrator.ts runAnalysis, the AnalysisResponse (sent by the streaming
\* path of analyzeHandler)
AnalysisResponse(analysisId, agentTypes, results) ==
  [kind |-> "result", success |-> TRUE, analysisId |-> analysisId,
   agentsUsed |-> agentTypes, results |-> results]

\* server.ts analyzeHandler, catch block: the error envelope
ErrorEnvelope(msg) ==
  [kind |-> "error", error |-> msg, code |-> "ANALYSIS_FAILED", details |-> Empty]

\* server.ts analysisStatusHandler: the 404 envelope for an id without an
\* entry, else the entry itself
NotFound == [kind |-> "error", error |-> "Analysis not found",
             code |-> "ANALYSIS_NOT_FOUND"]

analysisStatusHandler(status) == IF status = NoEntry THEN NotFound ELSE status

\* db-service.ts: a row of analysis_requests (status, result_data, error)
\* as recordAnalysisRequest inserts it and updateAnalysisRequest rewrites
\* it; NoDbOp is no statement under way
NoDbOp == [status |-> "none"]
DbRow(status, results, error) ==
  [status |-> status, results |-> results, error |-> error]

\* db-service.ts updateAnalysisRequest: UPDATE ... SET status, result_data,
\* error WHERE analysis_id = ?, which changes nothing without such a row
updateAnalysisRequest(row, op) == IF row = NoEntry THEN row ELSE op

ReqInit == [pc |-> "idle", projectId |-> <<>>, analysisTypes |-> <<>>,
            streaming |-> FALSE, timeout |-> 0, sid |-> <<0, <<>>>>,
            oid |-> <<0, <<>>>>, agentTypes |-> <<>>,
            results |-> {}, error |-> NoError, dbOp |-> NoDbOp]

\* --------------------------------------------------------------- workflow
\* workflow.ts CustomerSupportWorkflow.  A JSON value of the body is a
\* record with its type as tag; a string is a sequence of words
MaxWords == 2
Words == {"BILLING", "delivery", "Login", "food", "hello"}
Strings == UNION { [1..n -> Words] : n \in 0..MaxWords }
Absent == [tag |-> "undefined", words |-> <<>>]
JsonValues == { Absent, [tag |-> "null", words |-> <<>>],
                [tag |-> "number", words |-> <<>>] }
                 \cup { [tag |-> "string", words |-> w] : w \in Strings }

\* req.body of POST /workflow/customer_support: undefined without a body,
\* else an object with the fields query, customerId and priority
NoBody == [tag |-> "undefined"]
WorkflowInputs ==
  { NoBody } \cup
  { [tag |-> "object", query |-> q, customerId |-> Absent, priority |-> p] :
      q \in JsonValues,
      p \in { Absent, [tag |-> "string", words |-> <<"hello">>] } }

DestructureMsg == "Cannot destructure property 'query' of 'context.workflowInput' as it is undefined."
ToLowerCaseMsg == "Cannot read properties of undefined (reading 'toLowerCase')"
NotAFunctionMsg == "query.toLowerCase is not a function"

WorkflowNoData == [empty |-> TRUE]
WorkflowNoResult == [status |-> "none"]
WorkflowIdle(input) == [pc |-> "idle", input |-> input, settled |-> "pending",
                        result |-> WorkflowNoResult]

\* String.prototype.toLowerCase, word by word
LowerWord(w) == CASE w = "BILLING" -> "billing"
                  [] w = "Login" -> "login"
                  [] OTHER -> w
toLowerCase(words) == [i \in 1..Len(words) |-> LowerWord(words[i])]

\* String.prototype.includes for a keyword that is a word
includes(words, keyword) == \E i \in 1..Len(words) : words[i] = keyword

\* workflow.ts categorizeQuery for a string
categorizeQuery(words) ==
  LET queryLower == toLowerCase(words) IN
  IF includes(queryLower, "billing") \/ includes(queryLower, "payment")
     \/ includes(queryLower, "charge") THEN "billing"
  ELSE IF includes(queryLower, "order") \/ includes(queryLower, "delivery") THEN "orders"
  ELSE IF includes(queryLower, "account") \/ includes(queryLower, "login")
          \/ includes(queryLower, "password") THEN "account"
  ELSE IF includes(queryLower, "menu") \/ includes(queryLower, "food")
          \/ includes(queryLower, "item") THEN "menu"
  ELSE "general"

\* a catch block that throws the error on
executeCatch_Rethrows(msg) ==
  [settled |-> "rejected",
   result |-> [status |-> "failed", data |-> WorkflowNoData, error |-> msg]]

\* workflow.ts execute, catch block (115-128)
executeCatch(msg) ==
  [settled |-> "resolved",
   result |-> [status |-> "failed", data |-> WorkflowNoData, error |-> msg]]

\* workflow.ts execute 90-114, after the delay: the result with the
\* category of the query; query.toLowerCase() throws a TypeError for a
\* query that is undefined or null or not a string
executeFinish(input) ==
  CASE input.query.tag \in {"undefined", "null"} -> executeCatch(ToLowerCaseMsg)
    [] input.query.tag = "string" ->
         [settled |-> "resolved",
          result |-> [status |-> "completed",
                      data |-> [empty |-> FALSE, query |-> input.query,
                                customerId |-> input.customerId,
                                priority |-> IF input.priority.tag = "undefined"
                                             THEN [tag |-> "string", words |-> <<"medium">>]
                                             ELSE input.priority,
                                category |-> categorizeQuery(input.query.words)],
                      error |-> NoError]]
    [] OTHER -> executeCatch(NotAFunctionMsg)

\* ------------------------------------------------------------------- Init
\* the values of config.maxRetries an orchestrator is constructed with
ConfiguredMaxRetries == {0, 1, 2}

PipelineInit ==
  /\ clock = 0
  /\ config \in { [maxRetries |-> EffectiveMaxRetries(c), cacheEnabled |-> TRUE,
                     priorityEnabled |-> TRUE, resultAggregation |-> "simple",
                     maxConcurrentAgents |-> SequentialMaxConcurrentAgents,
                     given |-> [maxRetries |-> c], dbService |-> d] :
                    c \in ConfiguredMaxRetries, d \in BOOLEAN }
  /\ agents = Registry
  /\ registered = Registry
  /\ isRunning = [a \in AgentIds |-> FALSE]
  /\ lastResult = [a \in AgentIds |-> NoResult]
  /\ reqs = [r \in Requests |-> ReqInit]
  /\ tasks = [r \in Requests |-> [k \in Kinds |-> TaskInit]]
  /\ analysisStatus = [id \in AllIds |-> NoEntry]
  /\ timers = [id \in AllIds |-> 0]
  /\ runningTasks = {}
  /\ resultsCache = [id \in AllIds |-> NoEntry]
  /\ responses = [r \in Requests |-> <<>>]
  /\ db = [id \in AllIds |-> NoEntry]

\* no call of the workflow endpoint
Init ==
  /\ PipelineInit
  /\ ~config.dbService
  /\ workflow = WorkflowIdle(NoBody)
  /\ aggregation = NoAggregation

\* ------------------------------------------------- settling of runAnalysis
\* The rest of a macrotask after the tasks of request r changed to tk:
\* Promise.all(tasks) rejects with the first rejected task and resolves
\* when every task resolved.  rq, st, rt, rs are reqs, analysisStatus,
\* runningTasks and responses as the macrotask left them so far.
FirstRejected(kinds, tk) ==
  CHOOSE i \in 1..Len(kinds) :
    /\ tk[kinds[i]].pc = "rejected"
    /\ \A j \in 1..(i - 1) : tk[kinds[j]].pc # "rejected"

\* orchestrator.ts runAnalysis catch block (157-171), then server.ts
\* runAnalysis catch block (151-169), then analyzeHandler: the background
\* path only logs, the streaming path sends the error envelope.  With a
\* database service (server.ts 685-756) the background path starts the
\* update of the row to failed; the catch block of the streaming path
\* (749-755) has no such call
RunRejects(r, msg, rq, tk, st, rt, rs) ==
  LET req == rq[r] IN
  /\ tasks' = tk
  /\ reqs' = [rq EXCEPT ![r].pc = "rejected", ![r].error = msg,
                        ![r].dbOp = IF config.dbService /\ ~req.streaming
                                    THEN DbRow("failed", NoResults, msg)
                                    ELSE NoDbOp]
  /\ runningTasks' =
       { key \in rt : ~StartsWith(TaskKeyStr(key), AnalysisIdStr(req.oid)) }
  /\ analysisStatus' = [st EXCEPT ![req.sid] = FailedStatus(msg)]
  /\ timers' = [timers EXCEPT ![req.sid] = @ + 1]
  /\ responses' = IF req.streaming
                  THEN [rs EXCEPT ![r] = Append(@, ErrorEnvelope(msg))]
                  ELSE rs
  /\ UNCHANGED resultsCache

\* orchestrator.ts runAnalysis 117-156, then server.ts runAnalysis 135-150,
\* then analyzeHandler: the streaming path sends the AnalysisResponse.  With
\* a database service both paths start the update of the row to completed,
\* and the streaming path awaits it before it sends the response
RunResolves(r, rq, tk, st, rt, rs) ==
  LET req == rq[r]
      agentTypes == req.agentTypes
      results == [i \in 1..Len(agentTypes) |-> tk[r][agentTypes[i]].result]
      processedResults == aggregateResults(config.resultAggregation, agentTypes,
                                           results)
  IN
  /\ tasks' = tk
  /\ reqs' = [rq EXCEPT ![r].pc = "resolved", ![r].results = processedResults,
                        ![r].dbOp = IF config.dbService
                                    THEN DbRow("completed", processedResults, NoError)
                                    ELSE NoDbOp]
  /\ resultsCache' = IF config.cacheEnabled
                     THEN [resultsCache EXCEPT ![req.oid] =
                             [results |-> processedResults]]
                     ELSE resultsCache
  /\ runningTasks' =
       rt \ { <<req.oid[1], req.oid[2], agentTypes[i]>> : i \in 1..Len(agentTypes) }
  /\ analysisStatus' = [st EXCEPT ![req.sid] = CompletedStatus(processedResults)]
  /\ timers' = [timers EXCEPT ![req.sid] = @ + 1]
  /\ responses' =
       IF req.streaming /\ ~config.dbService
       THEN [rs EXCEPT ![r] =
               Append(@, AnalysisResponse(req.oid, agentTypes, processedResults))]
       ELSE rs

StillRunning(rq, tk, st, rt, rs) ==
  /\ tasks' = tk
  /\ reqs' = rq
  /\ runningTasks' = rt
  /\ analysisStatus' = st
  /\ responses' = rs
  /\ UNCHANGED << timers, resultsCache >>

Settle(r, rq, tk, st, rt, rs) ==
  LET kinds == rq[r].agentTypes IN
  IF rq[r].pc # "running"
  THEN StillRunning(rq, tk, st, rt, rs)
  ELSE IF \E i \in 1..Len(kinds) : tk[r][kinds[i]].pc = "rejected"
  THEN RunRejects(r, tk[r][kinds[FirstRejected(kinds, tk[r])]].lastError,
                  rq, tk, st, rt, rs)
  ELSE IF \A i \in 1..Len(kinds) : tk[r][kinds[i]].pc = "resolved"
  THEN RunResolves(r, rq, tk, st, rt, rs)
  ELSE StillRunning(rq, tk, st, rt, rs)

\* ---------------------------------------------------------------- actions
\* POST /analyze: server.ts analyzeHandler 209-257 with everything it calls
\* before the first macrotask boundary: the id from Date.now(), the pending
\* entry, server.ts runAnalysis up to its await (the processing entry),
\* orchestrator.ts runAnalysis 86-117 (its own id from a second read of
\* Date.now(), getRequiredAgents, one runAgentWithRetry per agent, each
\* entering agent.run at once), the immediate response of the background
\* path, and whatever already settles.  now and now2 are the two readings of
\* Date.now(): the clock never goes back, and at most a millisecond passes
\* between the handler's reading and the orchestrator's
AnalyzeRequest(r, body, now, now2) ==
  /\ reqs[r].pc = "idle"
  /\ IF r = 1 THEN TRUE ELSE reqs[r - 1].pc # "idle"
  /\ clock <= now
  /\ now2 \in {now, now + 1}
  /\ LET projectId == body.projectId
         analysisTypes == body.analysisTypes
         streaming == body.streaming
         timeout == body.timeout
         sid == <<now, projectId>>
         oid == <<now2, projectId>>
         requiredAgents == getRequiredAgents(analysisTypes, agents)
         required == SeqRange(requiredAgents)
         st == [[analysisStatus EXCEPT ![sid] = PendingStatus]
                  EXCEPT ![sid] = ProcessingStatus]
         rq == [reqs EXCEPT ![r] =
                  [ReqInit EXCEPT !.pc = "running", !.projectId = projectId,
                                  !.analysisTypes = analysisTypes,
                                  !.streaming = streaming, !.timeout = timeout,
                                  !.sid = sid, !.oid = oid,
                                  !.agentTypes = requiredAgents]]
         tk == [tasks EXCEPT ![r] =
                  [k \in Kinds |->
                     IF k \in required
                     THEN runEnter([TaskInit EXCEPT !.agent = agents[k]],
                                   isRunning[agents[k]], config.maxRetries)
                     ELSE TaskInit]]
         rt == runningTasks \cup { <<now2, projectId, k>> : k \in required }
         rs == IF streaming THEN responses
               ELSE [responses EXCEPT ![r] = Append(@, AcceptedResponse(sid))]
     IN
     /\ clock' = now2
     /\ isRunning' = [a \in AgentIds |->
                        isRunning[a] \/ \E k \in required : agents[k] = a]
     /\ IF requiredAgents = <<>>
        THEN RunRejects(r, NoAgentsMsg, rq, tasks, st, runningTasks, rs)
        ELSE Settle(r, rq, tk, st, rt, rs)
  /\ UNCHANGED << config, agents, lastResult, workflow, registered, aggregation, db >>

\* a process call settles: base-agent.ts run 137-175 continues when run
\* still awaits it, and runAgentWithRetry 187-198 takes the outcome of run;
\* a call abandoned by the timeout settles without any continuation
ProcessSettle(r, k, outcome) ==
  LET t == tasks[r][k]
      a == t.agent
  IN
  /\ t.proc \in {"inflight", "abandoned"}
  /\ outcome \in ProcessOutcomes(a)
  /\ IF t.proc = "abandoned"
     THEN /\ tasks' = [tasks EXCEPT ![r][k].proc = "none"]
          /\ lastResult' = [lastResult EXCEPT ![a] = lateSettle(@, a, outcome)]
          /\ UNCHANGED << isRunning, reqs, analysisStatus, timers,
                          runningTasks, resultsCache, responses >>
     ELSE LET s == runSettle(a, outcome) IN
          /\ isRunning' = [isRunning EXCEPT ![a] = FALSE]
          /\ lastResult' = IF s.returns
                           THEN [lastResult EXCEPT ![a] = s.result]
                           ELSE lastResult
          /\ Settle(r, reqs,
                    [tasks EXCEPT ![r][k] =
                       taskAfterRun(t, s, "none", config.maxRetries)],
                    analysisStatus, runningTasks, responses)
  /\ UNCHANGED << clock, config, agents, workflow, registered, aggregation, db >>

\* the timeout timer of base-agent.ts run 133-135 fires before process
\* settled (run is given request.timeout * 1000, and sets the timer only
\* for a truthy timeout)
AgentTimeout(r, k) ==
  LET t == tasks[r][k]
      a == t.agent
  IN
  /\ t.proc = "inflight"
  /\ reqs[r].timeout > 0
  /\ isRunning' = [isRunning EXCEPT ![a] = FALSE]
  /\ lastResult' = [lastResult EXCEPT ![a] = runTimeout.result]
  /\ Settle(r, reqs,
            [tasks EXCEPT ![r][k] =
               taskAfterRun(t, runTimeout, "abandoned", config.maxRetries)],
            analysisStatus, runningTasks, responses)
  /\ UNCHANGED << clock, config, agents, workflow, registered, aggregation, db >>

\* the retry wait of orchestrator.ts runAgentWithRetry 196 ends: attempt++
\* and the next agent.run
RetryTimer(r, k) ==
  LET t == tasks[r][k]
      a == t.agent
  IN
  /\ t.pc = "waiting"
  /\ isRunning' = [isRunning EXCEPT ![a] = TRUE]
  /\ Settle(r, reqs,
            [tasks EXCEPT ![r][k] =
               runEnter([t EXCEPT !.attempt = @ + 1], isRunning[a],
                        config.maxRetries)],
            analysisStatus, runningTasks, responses)
  /\ UNCHANGED << clock, config, agents, lastResult, workflow, registered, aggregation, db >>

\* a one-hour timer of server.ts runAnalysis 146-148 / 164-166 fires
Evict(id) ==
  /\ timers[id] > 0
  /\ timers' = [timers EXCEPT ![id] = @ - 1]
  /\ analysisStatus' = [analysisStatus EXCEPT ![id] = NoEntry]
  /\ UNCHANGED << clock, config, agents, isRunning, lastResult, reqs, tasks,
                  runningTasks, resultsCache, responses, workflow, registered, aggregation, db >>

Next ==
  \/ \E r \in Requests, body \in Bodies, now \in Clock, now2 \in Clock :
        AnalyzeRequest(r, body, now, now2)
  \/ \E r \in Requests, k \in Kinds, outcome \in Outcomes :
        ProcessSettle(r, k, outcome)
  \/ \E r \in Requests, k \in Kinds : AgentTimeout(r, k)
  \/ \E r \in Requests, k \in Kinds : RetryTimer(r, k)
  \/ \E id \in AllIds : Evict(id)

Spec == Init /\ [][Next]_vars

\* ------------------------------------------------- the workflow endpoint
\* workflow.ts execute 73-88, up to the delay: destructuring an undefined
\* workflowInput throws inside the try block, and the catch block settles
\* the call in the same macrotask
WorkflowExecute ==
  /\ workflow.pc = "idle"
  /\ IF workflow.input.tag = "undefined"
     THEN LET s == executeCatch(DestructureMsg) IN
          workflow' = [workflow EXCEPT !.pc = "done", !.settled = s.settled,
                                       !.result = s.result]
     ELSE workflow' = [workflow EXCEPT !.pc = "waiting"]
  /\ UNCHANGED << clock, config, agents, isRunning, lastResult, reqs, tasks,
                  analysisStatus, timers, runningTasks, resultsCache, responses,
                  registered, aggregation, db >>

\* the 500 ms timer of execute fires: the rest of execute
WorkflowDelay ==
  /\ workflow.pc = "waiting"
  /\ LET s == executeFinish(workflow.input) IN
     workflow' = [workflow EXCEPT !.pc = "done", !.settled = s.settled,
                                  !.result = s.result]
  /\ UNCHANGED << clock, config, agents, isRunning, lastResult, reqs, tasks,
                  analysisStatus, timers, runningTasks, resultsCache, responses,
                  registered, aggregation, db >>

\* execute shares no state with the analysis pipeline (it never calls the
\* orchestrator it is given), so it is specified on its own, for every body
WorkflowInit ==
  /\ PipelineInit
  /\ config.maxRetries = DefaultMaxRetries
  /\ ~config.dbService
  /\ workflow \in { WorkflowIdle(input) : input \in WorkflowInputs }
  /\ aggregation = NoAggregation

WorkflowNext == WorkflowExecute \/ WorkflowDelay

WorkflowSpec == WorkflowInit /\ [][WorkflowNext]_vars

\* every process call settles and every retry wait ends: the event loop
\* runs each timer, and the specification takes the external calls of
\* process to answer
Progress ==
  \/ \E r \in Requests, k \in Kinds, outcome \in Outcomes :
        ProcessSettle(r, k, outcome)
  \/ \E r \in Requests, k \in Kinds : RetryTimer(r, k)

FairSpec == Spec /\ WF_vars(Progress)

\* the timers of the event loop fire (the timeout of run, the retry wait),
\* while a process call may stay pending for ever
runAgentWithRetry_Timers ==
  \/ \E r \in Requests, k \in Kinds : AgentTimeout(r, k)
  \/ \E r \in Requests, k \in Kinds : RetryTimer(r, k)

TimerSpec == Spec /\ WF_vars(runAgentWithRetry_Timers)

\* ------------------------------------------------------------ aggregation
\* aggregateResults returns
Aggregate ==
  /\ aggregation.pc = "called"
  /\ aggregation' =
       [aggregation EXCEPT !.pc = "returned",
                           !.aggregated = aggregateResults(aggregation.method,
                                            aggregation.agentTypes,
                                            aggregation.results)]
  /\ UNCHANGED << clock, config, agents, isRunning, lastResult, reqs, tasks,
                  analysisStatus, timers, runningTasks, resultsCache, responses,
                  workflow, registered, db >>

\* aggregateResults reads config.resultAggregation and its arguments only:
\* it is specified on its own, for every call with as many results as kinds
AggregateInit ==
  /\ PipelineInit
  /\ config.maxRetries = DefaultMaxRetries
  /\ ~config.dbService
  /\ workflow = WorkflowIdle(NoBody)
  /\ aggregation \in { c \in AggregationCalls : Len(c.results) = Len(c.agentTypes) }

AggregateNext == Aggregate

AggregateSpec == AggregateInit /\ [][AggregateNext]_vars

\* --------------------------------------------------- with a database service
\* POST /analyze with req.app.locals.dbService set: server.ts analyzeHandler
\* 653-683, up to the await of recordAnalysisRequest: the id, the pending
\* entry and the INSERT of the pending row
AnalyzeRequestDb(r, body, now) ==
  /\ config.dbService
  /\ reqs[r].pc = "idle"
  /\ IF r = 1 THEN TRUE ELSE reqs[r - 1].pc # "idle"
  /\ clock <= now
  /\ clock' = now
  /\ LET sid == <<now, body.projectId>> IN
     /\ analysisStatus' = [analysisStatus EXCEPT ![sid] = PendingStatus]
     /\ reqs' = [reqs EXCEPT ![r] =
                   [ReqInit EXCEPT !.pc = "recording",
                                   !.projectId = body.projectId,
                                   !.analysisTypes = body.analysisTypes,
                                   !.streaming = body.streaming,
                                   !.timeout = body.timeout, !.sid = sid,
                                   !.dbOp = DbRow("pending", NoResults, NoError)]]
  /\ UNCHANGED << config, agents, isRunning, lastResult, tasks, timers,
                  runningTasks, resultsCache, responses, workflow, registered,
                  aggregation, db >>

\* the INSERT is done and analyzeHandler goes on (server.ts 685-733): server.ts
\* runAnalysis sets processing and calls orchestrator.runAnalysis, which
\* reads Date.now() for its own id and dispatches the agents; the
\* background path answers at once
DbRecorded(r, now2) ==
  /\ reqs[r].pc = "recording"
  /\ clock <= now2
  /\ LET req == reqs[r]
         requiredAgents == getRequiredAgents(req.analysisTypes, agents)
         required == SeqRange(requiredAgents)
         st == [analysisStatus EXCEPT ![req.sid] = ProcessingStatus]
         rq == [reqs EXCEPT ![r].pc = "running",
                            ![r].oid = <<now2, req.projectId>>,
                            ![r].agentTypes = requiredAgents,
                            ![r].dbOp = NoDbOp]
         tk == [tasks EXCEPT ![r] =
                  [k \in Kinds |->
                     IF k \in required
                     THEN runEnter([TaskInit EXCEPT !.agent = agents[k]],
                                   isRunning[agents[k]], config.maxRetries)
                     ELSE TaskInit]]
         rt == runningTasks \cup { <<now2, req.projectId, k>> : k \in required }
         rs == IF req.streaming THEN responses
               ELSE [responses EXCEPT ![r] = Append(@, AcceptedResponse(req.sid))]
     IN
     /\ clock' = now2
     /\ db' = [db EXCEPT ![req.sid] = req.dbOp]
     /\ isRunning' = [a \in AgentIds |->
                        isRunning[a] \/ \E k \in required : agents[k] = a]
     /\ IF requiredAgents = <<>>
        THEN RunRejects(r, NoAgentsMsg, rq, tasks, st, runningTasks, rs)
        ELSE Settle(r, rq, tk, st, rt, rs)
  /\ UNCHANGED << config, agents, lastResult, workflow, registered, aggregation >>

\* the UPDATE a settled run started is done; the streaming path then sends
\* the AnalysisResponse (server.ts 735-746)
DbUpdated(r) ==
  /\ reqs[r].pc \in {"resolved", "rejected"}
  /\ reqs[r].dbOp # NoDbOp
  /\ db' = [db EXCEPT ![reqs[r].sid] = updateAnalysisRequest(@, reqs[r].dbOp)]
  /\ reqs' = [reqs EXCEPT ![r].dbOp = NoDbOp]
  /\ responses' =
       IF reqs[r].streaming
       THEN [responses EXCEPT ![r] =
               Append(@, AnalysisResponse(reqs[r].oid, reqs[r].agentTypes,
                                          reqs[r].results))]
       ELSE responses
  /\ UNCHANGED << clock, config, agents, isRunning, lastResult, tasks,
                  analysisStatus, timers, runningTasks, resultsCache, workflow,
                  registered, aggregation >>

\* the server with a database service whose statements succeed
DbInit ==
  /\ PipelineInit
  /\ config.given.maxRetries = 2
  /\ config.dbService
  /\ workflow = WorkflowIdle(NoBody)
  /\ aggregation = NoAggregation

DbNext ==
  \/ \E r \in Requests, body \in Bodies, now \in Clock :
        AnalyzeRequestDb(r, body, now)
  \/ \E r \in Requests, now2 \in Clock : DbRecorded(r, now2)
  \/ \E r \in Requests : DbUpdated(r)
  \/ \E r \in Requests, k \in Kinds, outcome \in Outcomes :
        ProcessSettle(r, k, outcome)
  \/ \E r \in Requests, k \in Kinds : AgentTimeout(r, k)
  \/ \E r \in Requests, k \in Kinds : RetryTimer(r, k)

DbSpec == DbInit /\ [][DbNext]_vars

\* ------------------------------------------------------------ registration
\* a call of registerAgent; nothing in the code confines it to start-up
RegisterAgent(a) ==
  /\ agents' = registerAgent(agents, a)
  /\ registered' = IF AgentType[a] = NoType THEN registered
                   ELSE [registered EXCEPT ![AgentType[a]] = a]
  /\ UNCHANGED << clock, config, isRunning, lastResult, reqs, tasks,
                  analysisStatus, timers, runningTasks, resultsCache, responses,
                  workflow, aggregation, db >>

\* an orchestrator constructed without a map of agents (the default of the
\* second parameter), its agents registered one by one as in server code
RegisterInit ==
  /\ clock = 0
  /\ config = [maxRetries |-> 2, cacheEnabled |-> TRUE, priorityEnabled |-> TRUE,
               resultAggregation |-> "simple",
               maxConcurrentAgents |-> SequentialMaxConcurrentAgents,
               given |-> [maxRetries |-> 2], dbService |-> FALSE]
  /\ agents = [k \in Kinds |-> NoAgent]
  /\ registered = [k \in Kinds |-> NoAgent]
  /\ aggregation = NoAggregation
  /\ db = [id \in AllIds |-> NoEntry]
  /\ isRunning = [a \in AgentIds |-> FALSE]
  /\ lastResult = [a \in AgentIds |-> NoResult]
  /\ reqs = [r \in Requests |-> ReqInit]
  /\ tasks = [r \in Requests |-> [k \in Kinds |-> TaskInit]]
  /\ analysisStatus = [id \in AllIds |-> NoEntry]
  /\ timers = [id \in AllIds |-> 0]
  /\ runningTasks = {}
  /\ resultsCache = [id \in AllIds |-> NoEntry]
  /\ responses = [r \in Requests |-> <<>>]
  /\ workflow = WorkflowIdle(NoBody)

\* registrations and runs; the eviction timers of the server's status map
\* have no part in either
RegisterNext ==
  \/ \E a \in AgentIds : RegisterAgent(a)
  \/ \E r \in Requests, body \in Bodies, now \in Clock, now2 \in Clock :
        AnalyzeRequest(r, body, now, now2)
  \/ \E r \in Requests, k \in Kinds, outcome \in Outcomes :
        ProcessSettle(r, k, outcome)
  \/ \E r \in Requests, k \in Kinds : AgentTimeout(r, k)
  \/ \E r \in Requests, k \in Kinds : RetryTimer(r, k)

RegisterSpec == RegisterInit /\ [][RegisterNext]_vars

\* ================================================================= claims
Settled(r) == reqs[r].pc \in {"resolved", "rejected"}
Required(r) == SeqRange(reqs[r].agentTypes)
TaskKeys == Requests \X Kinds

\* kind k is named by request r and maps to a registered agent whose
\* process always succeeds
ReliableKind(r, k) ==
  /\ k \in SeqRange(reqs[r].analysisTypes)
  /\ agents[k] \in Reliable

C2_AllOrNothing ==
  \A r \in Requests :
    reqs[r].pc = "resolved" =>
      \A k \in Required(r) : tasks[r][k].result.success

\* C3 as stated: a failed attempt triggers the next one until
\* maxRetries + 1 attempts were made, so a task gives up (returns a failed
\* result or throws) only in its attempt number maxRetries + 1 (index
\* maxRetries)
C3_RetryBudget ==
  \A key \in TaskKeys :
    LET t == tasks[key[1]][key[2]] IN
    (\/ t.pc = "rejected"
     \/ t.pc = "resolved" /\ ~t.result.success) =>
      t.attempt = config.maxRetries

\* none of the kinds named by r is a kind with a registered agent
NoAgentFor(r) ==
  \A i \in 1..Len(reqs[r].analysisTypes) :
    LET ty == reqs[r].analysisTypes[i] IN
    ty \notin Kinds \/ agents[ty] = NoAgent

\* C4: a request whose analysisTypes resolve to no registered agent is
\* rejected with the no-agents error, and no agent was invoked for it
C4_NoAgentsRejects ==
  \A r \in Requests :
    (reqs[r].pc # "idle" /\ NoAgentFor(r)) =>
      /\ reqs[r].pc = "rejected"
      /\ reqs[r].error = NoAgentsMsg
      /\ \A k \in Kinds : tasks[r][k] = TaskInit

C4_Witness ==
  \E r \in Requests :
    /\ reqs[r].pc = "rejected"
    /\ NoAgentFor(r)
    /\ reqs[r].analysisTypes # <<>>

\* task key made a call of agent.run in this step
RunCalled(key) ==
  LET t == tasks[key[1]][key[2]]
      u == tasks'[key[1]][key[2]]
  IN \/ t.pc = "none" /\ u.pc # "none"
     \/ u.attempt = t.attempt + 1

\* an accepted run call of another task on agent a has not settled
RunPending(a, key) ==
  \E other \in TaskKeys \ {key} :
    /\ tasks[other[1]][other[2]].agent = a
    /\ tasks[other[1]][other[2]].pc = "running"

\* C5: a call of run on an agent with an unsettled earlier run call fails
\* in the same step with the busy error, starts no process call, and leaves
\* the earlier call as it was
C5_BusyFailsFast ==
  [][ \A key \in TaskKeys :
        LET u == tasks'[key[1]][key[2]] IN
        (RunCalled(key) /\ RunPending(u.agent, key)) =>
          /\ u.lastError = BusyMsg
          /\ u.proc = "none"
          /\ u.pc \in {"waiting", "rejected"}
          /\ \A other \in TaskKeys \ {key} :
               tasks[other[1]][other[2]].agent = u.agent =>
                 tasks'[other[1]][other[2]] = tasks[other[1]][other[2]]
          /\ isRunning'[u.agent]
    ]_vars

\* a run call was refused as busy while the accepted one is still pending
C5_Witness ==
  \E key \in TaskKeys :
    LET t == tasks[key[1]][key[2]] IN
    /\ t.lastError = BusyMsg
    /\ t.proc = "none"
    /\ RunPending(t.agent, key)

\* C6 as stated: whenever process throws or rejects, run resolves (never
\* rejects) with an AgentResult with success=false and the error set: an
\* accepted run call ends as a returned AgentResult, and a returned result
\* that process did not build itself carries an error
C6_RunNeverRejects ==
  [][ \A key \in TaskKeys :
        LET t == tasks[key[1]][key[2]]
            u == tasks'[key[1]][key[2]]
        IN (t.pc = "running" /\ u.pc # "running") =>
             /\ u.pc = "resolved"
             /\ u.result \notin {OkResult(u.agent), SoftFailResult(u.agent)} =>
                  ~u.result.success /\ u.result.error # NoError
    ]_vars

\* C7: when the timeout fires before process settled, run returns the
\* timeout errorResult and stores it as lastResult; the abandoned process
\* call stays in flight, and its later settlement changes neither the
\* returned result nor lastResult nor any run
C7_TimeoutAbandons ==
  [][ \A key \in TaskKeys :
        LET t == tasks[key[1]][key[2]]
            u == tasks'[key[1]][key[2]]
        IN /\ (t.proc = "inflight" /\ u.proc = "abandoned") =>
                /\ u.pc = "resolved"
                /\ u.result = ErrorResult(TimeoutMsg)
                /\ lastResult'[u.agent] = ErrorResult(TimeoutMsg)
           /\ (t.proc = "abandoned" /\ u.proc # "abandoned") =>
                /\ u.result = ErrorResult(TimeoutMsg)
                /\ u.pc = "resolved"
                /\ lastResult' = lastResult
                /\ reqs' = reqs
                /\ isRunning' = isRunning
    ]_vars

\* a process call that lost against the timeout has settled since, and the
\* timeout result is still the returned and the stored one
C7_Witness ==
  \E key \in TaskKeys :
    LET t == tasks[key[1]][key[2]] IN
    /\ t.pc = "resolved"
    /\ t.result = ErrorResult(TimeoutMsg)
    /\ t.proc = "none"
    /\ lastResult[t.agent] = ErrorResult(TimeoutMsg)

\* C8 as stated: every AgentResult returned by run with success=false has
\* empty data and an error
C8_FailedResultShape ==
  \A key \in TaskKeys :
    LET t == tasks[key[1]][key[2]] IN
    (t.pc = "resolved" /\ ~t.result.success) =>
      t.result.data = Empty /\ t.result.error # NoError

\* C9 as stated: the status of an entry never goes back to pending, and
\* the status of a completed or failed entry never changes
C9_StatusMonotone ==
  [][ \A id \in AllIds :
        LET s == analysisStatus[id]
            u == analysisStatus'[id]
        IN (s # NoEntry /\ u # NoEntry) =>
             /\ s.status \in {"completed", "failed"} => u.status = s.status
             /\ s.status = "processing" => u.status # "pending"
    ]_vars

\* the entry under the analysisId of request r holds the outcome of its run
StatusSettled(r) ==
  LET entry == analysisStatus[reqs[r].sid] IN
  \/ /\ reqs[r].pc = "resolved"
     /\ entry.status = "completed"
     /\ entry.results = <<reqs[r].results>>
  \/ /\ reqs[r].pc = "rejected"
     /\ entry.status = "failed"
     /\ entry.error = reqs[r].error

Background(r) == reqs[r].pc # "idle" /\ ~reqs[r].streaming

\* the one response of request r is the immediate one
AnsweredAtOnce(r) ==
  /\ Len(responses[r]) = 1
  /\ responses[r][1].success
  /\ responses[r][1].analysisId = reqs[r].sid
  /\ responses[r][1].status = "processing"

NeverCreated(id) == \A r \in Requests : reqs[r].pc = "idle" \/ reqs[r].sid # id

\* C12 as stated, for the lookups after the run: a lookup of an id that was
\* never created returns not-found; a lookup that returns completed returns
\* non-empty results; and an entry that reached a terminal state is returned
\* until its own retention hour has elapsed (timers of one id fire in the
\* order they were set, so a timer still pending for an id is the timer of
\* the entry written last)
C12_StatusLookup ==
  \A id \in AllIds :
    LET got == analysisStatusHandler(analysisStatus[id]) IN
    /\ NeverCreated(id) => got = NotFound
    /\ (got # NotFound /\ got.status = "completed") =>
         got.results # <<>> /\ got.results # << {} >>
    /\ timers[id] > 0 => got # NotFound

Streaming(r) == reqs[r].pc # "idle" /\ reqs[r].streaming

MultiAgent(r) == Len(reqs[r].agentTypes) >= 2

\* the retry loop of kind k in run r ended without a successful result
AgentFailed(r, k) ==
  \/ tasks[r][k].pc = "rejected"
  \/ tasks[r][k].pc = "resolved" /\ ~tasks[r][k].result.success

AgentSucceeded(r, k) ==
  tasks[r][k].pc = "resolved" /\ tasks[r][k].result.success

\* the data of the agents of run r that succeeded, by kind
SucceededData(r) ==
  { <<k, tasks[r][k].result.data>> : k \in { j \in Required(r) : AgentSucceeded(r, j) } }

PriorityRank(level) == CHOOSE i \in 1..Len(PriorityLevels) : PriorityLevels[i] = level

\* C15 as stated: with priorityEnabled, among the process calls a request
\* starts when it is dispatched (runAnalysis starts them in the order of
\* agentTypes), that of an agent of higher priority never comes after that
\* of an agent of lower priority
C15_PriorityOrder ==
  [][ \A r \in Requests :
        (reqs[r].pc = "idle" /\ reqs'[r].pc # "idle" /\ config.priorityEnabled) =>
          LET kinds == reqs'[r].agentTypes IN
          \A i, j \in 1..Len(kinds) :
            (/\ i < j
             /\ tasks'[r][kinds[i]].proc = "inflight"
             /\ tasks'[r][kinds[j]].proc = "inflight") =>
              PriorityRank(AgentPriority[agents[kinds[i]]]) >=
                PriorityRank(AgentPriority[agents[kinds[j]]])
    ]_vars

DisabledMsg == "Agent is disabled"

\* C16 as stated: a call of run on an agent constructed with enabled=false
\* is rejected with 'Agent is disabled' and starts no process call
C16_DisabledRejects ==
  [][ \A key \in TaskKeys :
        LET u == tasks'[key[1]][key[2]] IN
        (RunCalled(key) /\ ~AgentEnabled[u.agent]) =>
          /\ u.lastError = DisabledMsg
          /\ u.proc = "none"
          /\ u.pc \in {"waiting", "rejected"}
    ]_vars

\* C17: an execute call that has settled has resolved, never rejected: with
\* status completed and the data of the ticket when the query is a string,
\* else (no body, no query, a query that is no string) with status failed,
\* the error message set and empty data
C17_ExecuteNeverRejects ==
  workflow.pc = "done" =>
    /\ workflow.settled = "resolved"
    /\ IF workflow.input.tag = "object" /\ workflow.input.query.tag = "string"
       THEN /\ workflow.result.status = "completed"
            /\ ~workflow.result.data.empty
            /\ workflow.result.data.query = workflow.input.query
       ELSE /\ workflow.result.status = "failed"
            /\ workflow.result.error \in {DestructureMsg, ToLowerCaseMsg, NotAFunctionMsg}
            /\ workflow.result.data = [empty |-> TRUE]

\* execute settled for a body without a query field
C17_Witness ==
  /\ workflow.pc = "done"
  /\ workflow.input.tag = "object"
  /\ workflow.input.query.tag = "undefined"
  /\ workflow.result.status = "failed"

\* C18: the registry has for each type the agent of the last registerAgent
\* call for that type (none before the first), a call for an agent without
\* a type changes nothing, and every run a request dispatches is a run of
\* the agent the registry has for the kind at that moment
C18_LastRegistered ==
  /\ [](\A k \in Kinds : agents[k] = registered[k])
  /\ [][ /\ \A a \in AgentIds : RegisterAgent(a) =>
                IF AgentType[a] = NoType THEN agents' = agents
                ELSE /\ agents'[AgentType[a]] = a
                     /\ \A k \in Kinds \ {AgentType[a]} : agents'[k] = agents[k]
          /\ \A r \in Requests, k \in Kinds :
                tasks[r][k].agent = NoAgent /\ tasks'[r][k].agent # NoAgent =>
                  /\ registered[k] # NoAgent
                  /\ tasks'[r][k].agent = registered[k] ]_vars

\* a run dispatched to the sentiment agent registered second, while the run
\* of an earlier request is still with the agent registered first
C18_Witness ==
  /\ agents["sentiment"] = "A3"
  /\ tasks[1]["sentiment"].agent = "A1"
  /\ tasks[1]["sentiment"].proc = "inflight"
  /\ tasks[2]["sentiment"].agent = "A3"

\* C19: at the step in which runAnalysis settles, the retry loop of every
\* agent it dispatched has settled: none of them has an attempt in flight or
\* is in a retry wait
C19_FanInBarrier ==
  [][\A r \in Requests :
       ~Settled(r) /\ Settled(r)' =>
         \A k \in SeqRange(reqs'[r].agentTypes) :
           tasks'[r][k].pc \in {"resolved", "rejected"}]_vars

\* the kinds request r names that have a registered agent, and a request
\* that names such kinds and others as well
Mapped(r) == { k \in SeqRange(reqs[r].analysisTypes) \cap Kinds : agents[k] # NoAgent }
Mixed(r) ==
  /\ reqs[r].pc # "idle"
  /\ Mapped(r) # {}
  /\ SeqRange(reqs[r].analysisTypes) \ Mapped(r) # {}

C21_StrategiesAgree ==
  aggregation.pc = "returned" =>
    /\ \A i \in 1..Len(aggregation.agentTypes) :
          aggregation.results[i].success =>
            <<aggregation.agentTypes[i], aggregation.results[i].data>>
              \in aggregation.aggregated
    /\ \A e \in aggregation.aggregated :
          \E i \in 1..Len(aggregation.agentTypes) :
            /\ aggregation.results[i].success
            /\ e = <<aggregation.agentTypes[i], aggregation.results[i].data>>

\* the weighted strategy returned an aggregate that has one of two results
C21_Witness ==
  /\ aggregation.pc = "returned"
  /\ aggregation.method = "weighted"
  /\ Len(aggregation.results) = 2
  /\ aggregation.results[1].success
  /\ ~aggregation.results[2].success
  /\ Cardinality(aggregation.aggregated) = 1

\* C22: with cacheEnabled=true, once the run of a request has resolved the
\* cache holds the aggregate of the run under the id under which the status
\* map records the request
C22_CachedUnderRequestId ==
  \A r \in Requests :
    config.cacheEnabled /\ reqs[r].pc = "resolved" =>
      resultsCache[reqs[r].sid] = [results |-> reqs[r].results]

\* the agents of request r whose run is in flight
InFlight(r) == { k \in Kinds : tasks[r][k].pc = "running" }

\* C23: within one runAnalysis call no more than config.maxConcurrentAgents
\* agents have their run in flight at the same time
C23_ConcurrencyLimit ==
  \A r \in Requests : Cardinality(InFlight(r)) <= config.maxConcurrentAgents

\* the process invocations of agent a that have not settled: those a run
\* still awaits and those a timed-out run left behind
ProcessInFlight(a) ==
  { key \in TaskKeys : /\ tasks[key[1]][key[2]].agent = a
                       /\ tasks[key[1]][key[2]].proc \in {"inflight", "abandoned"} }

\* C24: at any time at most one process invocation is in flight per agent
C24_SingleInFlight ==
  \A a \in AgentIds : Cardinality(ProcessInFlight(a)) <= 1

\* request r is accepted and something of it is left: its status entry, a
\* cache entry or running tasks
Tracked(r) ==
  /\ reqs[r].pc # "idle"
  /\ \/ analysisStatus[reqs[r].sid] # NoEntry
     \/ resultsCache[reqs[r].oid] # NoEntry
     \/ \E k \in Kinds : <<reqs[r].oid[1], reqs[r].oid[2], k>> \in runningTasks

\* C25: two requests that are both tracked have different request ids
C25_DistinctIds ==
  \A r1, r2 \in Requests :
    r1 # r2 /\ Tracked(r1) /\ Tracked(r2) => reqs[r1].sid # reqs[r2].sid

\* C26: a runAnalysis call with a positive timeout makes fewer than
\* maxRetries retries of each agent and, with the timers firing, settles in
\* the end, whether or not the process calls settle
C26_EventuallySettles ==
  /\ [](\A r \in Requests, k \in Kinds : tasks[r][k].attempt < config.maxRetries)
  /\ <>[](\A r \in Requests :
            reqs[r].pc # "idle" /\ reqs[r].timeout > 0 => Settled(r))

\* a call settled although the process call of its agent is still pending
C26_Witness ==
  \E r \in Requests, k \in Kinds :
    /\ reqs[r].timeout > 0
    /\ Settled(r)
    /\ tasks[r][k].proc = "abandoned"
    /\ tasks[r][k].result = ErrorResult(TimeoutMsg)

\* C27: in an orchestrator constructed with maxRetries=0 no task is ever in
\* a retry wait or in a second attempt
C27_ZeroMeansNoRetry ==
  config.given.maxRetries = 0 =>
    \A r \in Requests, k \in Kinds :
      tasks[r][k].pc # "waiting" /\ tasks[r][k].attempt = 0

\* an accepted run call on agent a has not settled
RunUnsettled(a) ==
  \E key \in TaskKeys : /\ tasks[key[1]][key[2]].agent = a
                        /\ tasks[key[1]][key[2]].pc = "running"

\* C28: the running flag of an agent is true exactly while an accepted run
\* call on it is unsettled; a run call rejected as busy changes neither the
\* flag nor the call in flight
C28_RunningFlag ==
  /\ [](\A a \in AgentIds : isRunning[a] <=> RunUnsettled(a))
  /\ [][\A key \in TaskKeys :
          LET t == tasks[key[1]][key[2]]
              u == tasks'[key[1]][key[2]]
          IN RunCalled(key) /\ u.lastError = BusyMsg /\ u.proc = "none"
               /\ u.pc \in {"waiting", "rejected"} =>
                 /\ isRunning[u.agent] /\ isRunning'[u.agent]
                 /\ \E other \in TaskKeys \ {key} :
                      /\ tasks'[other[1]][other[2]].agent = u.agent
                      /\ tasks'[other[1]][other[2]].pc = "running"
                      /\ tasks'[other[1]][other[2]] = tasks[other[1]][other[2]]]_vars

\* the flag of one agent is up for the call another call found it busy
\* with, and the flag of another agent is down again after its call settled
C28_Witness ==
  \E a \in AgentIds, k1, k2 \in TaskKeys :
    /\ tasks[k1[1]][k1[2]].agent = a
    /\ tasks[k1[1]][k1[2]].pc = "running"
    /\ tasks[k2[1]][k2[2]].agent = a
    /\ tasks[k2[1]][k2[2]].lastError = BusyMsg
    /\ isRunning[a]
    /\ \E b \in AgentIds \ {a}, k3 \in TaskKeys :
         /\ tasks[k3[1]][k3[2]].agent = b
         /\ tasks[k3[1]][k3[2]].pc = "resolved"
         /\ ~isRunning[b]

\* the runningTasks keys the runAnalysis call of request r creates
OwnTasks(r) ==
  { <<reqs[r].oid[1], reqs[r].oid[2], k>> : k \in SeqRange(reqs[r].agentTypes) }

\* C30: in the step in which the runAnalysis call of request r settles,
\* runningTasks loses the entries the call created and no entry of a call
\* for another projectId
C30_CleanupIsExact ==
  [][\A r \in Requests :
       ~Settled(r) /\ Settled(r)' =>
         /\ OwnTasks(r)' \cap runningTasks' = {}
         /\ \A key \in runningTasks :
              key[2] # reqs'[r].projectId => key \in runningTasks']_vars

\* request r shares its request id with no other request
OwnId(r) ==
  \A r2 \in Requests \ {r} : reqs[r2].pc = "idle" \/ reqs[r2].sid # reqs[r].sid

\* C29: with a database service, once the run of a request (that has its
\* id to itself) has settled and no statement for it is under way, its row
\* has the terminal status of the request: completed with the results
\* after success, failed with the error message after failure
C29_RecordFollowsStatus ==
  \A r \in Requests :
    config.dbService /\ reqs[r].dbOp = NoDbOp /\ OwnId(r) =>
      /\ reqs[r].pc = "resolved" =>
           db[reqs[r].sid] = [status |-> "completed", results |-> reqs[r].results,
                              error |-> NoError]
      /\ reqs[r].pc = "rejected" =>
           db[reqs[r].sid] = [status |-> "failed", results |-> NoResults,
                              error |-> reqs[r].error]

====
